---- MODULE Spec2Model ----
(***************************************************************************)
(* DS1302RTC: a bit-banged driver for the DS1302 real-time clock.          *)
(*                                                                         *)
(* The module models                                                       *)
(*   - the register codec of read(tmElements_t&) / write(tmElements_t&)    *)
(*     over the bit-field structure ds1302_struct,                         *)
(*   - the driver's control flow one GPIO call at a time (start, stop,     *)
(*     togglewrite, toggleread and the four transfers built from them),    *)
(*   - the three wires and a DS1302 that samples the data line on rising   *)
(*     clock edges and shifts data out on falling clock edges.             *)
(*   - an observer of the wires, who counts clock edges, samples and GPIO  *)
(*     calls (the history variable obs).                                   *)
(* Two specifications are given: Spec runs the driver pin by pin over      *)
(* small input sets; CodecSpec applies whole read/write handlers to wide   *)
(* sweeps of time records and register images.                             *)
(***************************************************************************)
EXTENDS Integers, Sequences, FiniteSets

VARIABLES
    exists,      \* DS1302RTC::exists
    io,          \* DS1302RTC::io   (pin number of the data line)
    sclk,        \* DS1302RTC::sclk (pin number of the clock line)
    rst,         \* DS1302RTC::rst  (pin number of chip enable)
    pinDir,      \* pin -> "INPUT" | "OUTPUT"       (Arduino pinMode)
    pinOut,      \* pin -> 0 | 1, the output latch  (Arduino digitalWrite)
    op,          \* public operation in progress, or "idle"
    pc,          \* position in the body of read(tm) / write(tm) / halt / get
    fn,          \* transfer function in progress, or "none"
    fpc,         \* position inside start / togglewrite / toggleread / stop
    address,     \* parameter of read(int) / write(int, uint8_t)
    data,        \* parameter of write(int, uint8_t); local of read(int)
    twData,      \* togglewrite: parameter data
    twRelease,   \* togglewrite: parameter release
    trData,      \* toggleread: local data
    i,           \* loop index of togglewrite / toggleread
    nb,          \* bytes exchanged so far in the transfer in progress
    tm,          \* the tmElements_t of the call in progress
    rtc,         \* the ds1302_struct of the call in progress, as 8 bytes
    ret,         \* <<>> or <<value returned by the last public operation>>
    chipRegs,    \* DS1302 registers 0..8 (seconds .. control, trickle)
    sess,        \* DS1302 serial state of the open session
    env,         \* what is on the other end of the data line
    log,         \* history: sessions completed in the operation in progress
    starts,      \* history: start() invocations in the transfer in progress
    stops,       \* history: stop() invocations in the transfer in progress
    lastOp,      \* history: the operation that returned ret, while idle
    lastWrite,   \* history: <<tm>> of the write(tm), made on bound pins, not
                 \*          yet followed by another register-changing call,
                 \*          else <<>>
    regsAtCall,  \* history: chipRegs when the operation in progress began
    obs          \* history: what an observer of the three wires has counted
                 \*          (clock edges, samples, GPIO calls), the register
                 \*          arguments of the call in progress, and the kind
                 \*          of the session closed last

vars == << exists, io, sclk, rst, pinDir, pinOut, op, pc, fn, fpc, address,
           data, twData, twRelease, trData, i, nb, tm, rtc, ret, chipRegs,
           sess, env, log, starts, stops, lastOp, lastWrite, regsAtCall,
           obs >>

-----------------------------------------------------------------------------
(* Bytes and bits *)

Pow2(n) == 2 ^ n

\* Arduino bitRead(value, bit)
bitRead(value, b) == (value \div Pow2(b)) % 2

\* Arduino bitSet(value, bit) / bitClear(value, bit)
bitSet(value, b) == IF bitRead(value, b) = 1 THEN value ELSE value + Pow2(b)
bitClear(value, b) == IF bitRead(value, b) = 1 THEN value - Pow2(b) ELSE value

\* Arduino bitWrite(value, bit, bitvalue)
bitWrite(value, b, v) == IF v = 0 THEN bitClear(value, b) ELSE bitSet(value, b)

\* conversion of an int to uint8_t
U8(x) == x % 256

\* C integer division and remainder: the quotient truncates toward zero
CDiv(x, y) == IF x >= 0 THEN x \div y ELSE -((-x) \div y)
CMod(x, y) == x - y * CDiv(x, y)

-----------------------------------------------------------------------------
(* The BCD macros *)

bcd2bin(h, l) == (h * 10) + l

bin2bcd_h(x) == CDiv(x, 10)

bin2bcd_l(x) == CMod(x, 10)

-----------------------------------------------------------------------------
(* Pin levels (Arduino LOW, HIGH), register names and command bytes *)

LOW == 0
HIGH == 1

DS1302_SECONDS == 128
DS1302_ENABLE == 142
DS1302_TRICKLE == 144
DS1302_CLOCK_BURST_WRITE == 190
DS1302_CLOCK_BURST_READ == 191
DS1302_READBIT == 0

\* (a variant in which both count from 2000)
YearOffset_none == 2000 - 2000

\* tmElements_t counts years from 1970, the chip from 2000
YearOffset == 2000 - 1970

-----------------------------------------------------------------------------
(* ds1302_struct: each member as <<byte, first bit, width>>.  Members are   *)
(* allocated from bit 0 upward in declaration order (avr-gcc), so the 8    *)
(* bytes are the chip's registers 0..7 as the burst transfer moves them.   *)

\* (a variant with three tens members one bit too narrow)
ds1302_struct_narrow ==
    [ Seconds        |-> <<0, 0, 4>>, Seconds10      |-> <<0, 4, 2>>,
      CH             |-> <<0, 7, 1>>,
      Minutes        |-> <<1, 0, 4>>, Minutes10      |-> <<1, 4, 3>>,
      reserved1      |-> <<1, 7, 1>>,
      h24_Hour       |-> <<2, 0, 4>>, h24_Hour10     |-> <<2, 4, 1>>,
      h24_reserved2  |-> <<2, 6, 1>>, h24_hour_12_24 |-> <<2, 7, 1>>,
      h12_Hour       |-> <<2, 0, 4>>, h12_Hour10     |-> <<2, 4, 1>>,
      h12_AM_PM      |-> <<2, 5, 1>>, h12_reserved2  |-> <<2, 6, 1>>,
      h12_hour_12_24 |-> <<2, 7, 1>>,
      Date           |-> <<3, 0, 4>>, Date10         |-> <<3, 4, 2>>,
      reserved3      |-> <<3, 6, 2>>,
      Month          |-> <<4, 0, 4>>, Month10        |-> <<4, 4, 1>>,
      reserved4      |-> <<4, 5, 3>>,
      Day            |-> <<5, 0, 3>>, reserved5      |-> <<5, 3, 5>>,
      Year           |-> <<6, 0, 4>>, Year10         |-> <<6, 4, 3>>,
      reserved6      |-> <<7, 0, 7>>, WP             |-> <<7, 7, 1>> ]

ds1302_struct ==
    [ Seconds        |-> <<0, 0, 4>>, Seconds10      |-> <<0, 4, 3>>,
      CH             |-> <<0, 7, 1>>,
      Minutes        |-> <<1, 0, 4>>, Minutes10      |-> <<1, 4, 3>>,
      reserved1      |-> <<1, 7, 1>>,
      h24_Hour       |-> <<2, 0, 4>>, h24_Hour10     |-> <<2, 4, 2>>,
      h24_reserved2  |-> <<2, 6, 1>>, h24_hour_12_24 |-> <<2, 7, 1>>,
      h12_Hour       |-> <<2, 0, 4>>, h12_Hour10     |-> <<2, 4, 1>>,
      h12_AM_PM      |-> <<2, 5, 1>>, h12_reserved2  |-> <<2, 6, 1>>,
      h12_hour_12_24 |-> <<2, 7, 1>>,
      Date           |-> <<3, 0, 4>>, Date10         |-> <<3, 4, 2>>,
      reserved3      |-> <<3, 6, 2>>,
      Month          |-> <<4, 0, 4>>, Month10        |-> <<4, 4, 1>>,
      reserved4      |-> <<4, 5, 3>>,
      Day            |-> <<5, 0, 3>>, reserved5      |-> <<5, 3, 5>>,
      Year           |-> <<6, 0, 4>>, Year10         |-> <<6, 4, 4>>,
      reserved6      |-> <<7, 0, 7>>, WP             |-> <<7, 7, 1>> ]

\* reading member m of the structure held in the 8 bytes s
Member(s, m) ==
    LET f == ds1302_struct[m]
    IN  (s[f[1] + 1] \div Pow2(f[2])) % Pow2(f[3])

\* assigning v to member m: the value is reduced modulo 2^width
SetMember(s, m, v) ==
    LET f == ds1302_struct[m]
        k == f[1] + 1
        old == (s[k] \div Pow2(f[2])) % Pow2(f[3])
        new == v % Pow2(f[3])
    IN  [s EXCEPT ![k] = s[k] - old * Pow2(f[2]) + new * Pow2(f[2])]

RECURSIVE SetMembers(_, _)
SetMembers(s, assignments) ==
    IF assignments = << >> THEN s
    ELSE SetMembers(SetMember(s, Head(assignments)[1], Head(assignments)[2]),
                    Tail(assignments))

ZeroImage == [k \in 1..8 |-> 0]

-----------------------------------------------------------------------------
(* The codec of write(tmElements_t&): lines 279-293 *)

OnesImage == [k \in 1..8 |-> 255]

\* lines 280-293 applied to the structure holding s
EncodeInto(s, x) ==
    SetMembers(s,
      << <<"Seconds",        bin2bcd_l(x.Second)>>,
         <<"Seconds10",      bin2bcd_h(x.Second)>>,
         <<"Minutes",        bin2bcd_l(x.Minute)>>,
         <<"Minutes10",      bin2bcd_h(x.Minute)>>,
         <<"h24_hour_12_24", 0>>,
         <<"h24_Hour",       bin2bcd_l(x.Hour)>>,
         <<"h24_Hour10",     bin2bcd_h(x.Hour)>>,
         <<"Day",            bin2bcd_l(x.Wday)>>,
         <<"Date",           bin2bcd_l(x.Day)>>,
         <<"Date10",         bin2bcd_h(x.Day)>>,
         <<"Month",          bin2bcd_l(x.Month)>>,
         <<"Month10",        bin2bcd_h(x.Month)>>,
         <<"Year",           bin2bcd_l(x.Year - YearOffset)>>,
         <<"Year10",         bin2bcd_h(x.Year - YearOffset)>> >>)

\* (a variant without the memset of line 279, on a stack full of ones)
Encode_no_memset(x) == EncodeInto(OnesImage, x)

\* line 279, then lines 280-293
Encode(x) == EncodeInto(ZeroImage, x)


-----------------------------------------------------------------------------
(* The codec of read(tmElements_t&): lines 252-261.  Every member of        *)
(* tmElements_t is a uint8_t.  In line 257 the operator + binds tighter    *)
(* than ?: so the condition of the conditional is (bcd2bin(..) + AM_PM).   *)

DecodeHour12(s) ==
    IF bcd2bin(Member(s, "h12_Hour10"), Member(s, "h12_Hour"))
           + Member(s, "h12_AM_PM") # 0
    THEN 12 ELSE 0

\* (a variant without the rebasing to 1970)
DecodeYear_no_offset(s) ==
    bcd2bin(Member(s, "Year10"), Member(s, "Year"))

DecodeYear(s) ==
    bcd2bin(Member(s, "Year10"), Member(s, "Year")) + YearOffset

Decode(s) ==
    [ Second |-> U8(bcd2bin(Member(s, "Seconds10"), Member(s, "Seconds"))),
      Minute |-> U8(bcd2bin(Member(s, "Minutes10"), Member(s, "Minutes"))),
      Hour   |-> IF Member(s, "h24_hour_12_24") = 0
                 THEN U8(bcd2bin(Member(s, "h24_Hour10"), Member(s, "h24_Hour")))
                 ELSE U8(DecodeHour12(s)),
      Wday   |-> U8(Member(s, "Day")),
      Day    |-> U8(bcd2bin(Member(s, "Date10"), Member(s, "Date"))),
      Month  |-> U8(bcd2bin(Member(s, "Month10"), Member(s, "Month"))),
      Year   |-> U8(DecodeYear(s)) ]

-----------------------------------------------------------------------------
(* The wires.  The DS1302 is wired to three pins of the board; the chip    *)
(* pulls its inputs down, so a line nobody drives reads low.               *)

Wiring == [io |-> 6, sclk |-> 7, rst |-> 8]

\* the pins of the board that matter: the three wired to the chip, and pin 0,
\* which io, sclk and rst all name until a constructor has run (lines
\* 220-222); nothing is wired to pin 0
WiredPins == {Wiring.io, Wiring.sclk, Wiring.rst}

Pins == {0} \cup WiredPins

\* level of the clock or chip-enable line for the pin states (dir, out)
Level(dir, out, p) == IF dir[p] = "OUTPUT" THEN out[p] ELSE LOW

\* Arduino digitalWrite(p, v) and pinMode(p, m) as new (dir, out) pairs;
\* pinMode(p, INPUT) also clears the latch, i.e. removes the pull-up (l. 507)
AfterDigitalWrite(p, v) == [dir |-> pinDir, out |-> [pinOut EXCEPT ![p] = v]]

AfterPinMode(p, m) ==
    [dir |-> [pinDir EXCEPT ![p] = m],
     out |-> IF m = "INPUT" THEN [pinOut EXCEPT ![p] = 0] ELSE pinOut]

-----------------------------------------------------------------------------
(* The DS1302 as the driver's comments describe it: a command byte, then   *)
(* data; bit 0 of the command selects read, bits 1..5 the register, 31     *)
(* being the clock burst; the control register holds write protect.        *)

IdleSess == [bits |-> << >>, bytes |-> << >>, nout |-> 0]

RECURSIVE BitsToByte(_)
BitsToByte(bits) ==
    IF bits = << >> THEN 0 ELSE Head(bits) + 2 * BitsToByte(Tail(bits))

CmdIsRead(cmd) == bitRead(cmd, DS1302_READBIT) = 1
CmdIsClock(cmd) == bitRead(cmd, 7) = 1 /\ bitRead(cmd, 6) = 0
CmdReg(cmd) == (cmd \div 2) % 32
BurstReg == 31
ControlReg == 7

WriteProtected(regs) == bitRead(regs[ControlReg + 1], 7) = 1

\* the registers after a write session in which the chip received `bytes`
ChipWrite(regs, bytes) ==
    IF Len(bytes) < 2 \/ CmdIsRead(bytes[1]) \/ ~CmdIsClock(bytes[1])
    THEN regs
    ELSE LET r == CmdReg(bytes[1])
         IN  IF r = BurstReg
             THEN IF Len(bytes) = 9 /\ ~WriteProtected(regs)
                  THEN [k \in 1..9 |-> IF k <= 8 THEN bytes[k + 1] ELSE regs[k]]
                  ELSE regs
             ELSE IF r <= 8 /\ Len(bytes) = 2
                          /\ (r = ControlReg \/ ~WriteProtected(regs))
                  THEN [regs EXCEPT ![r + 1] = bytes[2]]
                  ELSE regs

\* the bytes the chip shifts out after the read command cmd
ReadStream(regs, cmd) ==
    IF ~CmdIsClock(cmd) THEN << 0 >>
    ELSE IF CmdReg(cmd) = BurstReg THEN SubSeq(regs, 1, 8)
    ELSE IF CmdReg(cmd) <= 8 THEN << regs[CmdReg(cmd) + 1] >>
    ELSE << 0 >>

ChipDrives(s) == Len(s.bytes) >= 1 /\ CmdIsRead(s.bytes[1]) /\ s.nout >= 1

ChipOutBit(s, regs) ==
    LET stream == ReadStream(regs, s.bytes[1])
        k == ((s.nout - 1) \div 8) + 1
    IN  IF k <= Len(stream) THEN bitRead(stream[k], (s.nout - 1) % 8) ELSE 0

\* the chip's reaction to the lines moving from levels (ce0, ck0) to
\* (ce1, ck1) while the host holds the data line at d
React(s, regs, ce0, ce1, ck0, ck1, d) ==
    IF ce1 = 0
    THEN [sess |-> IdleSess, regs |-> regs,
          done |-> IF ce0 = 1 THEN << s.bytes >> ELSE << >>]
    ELSE IF ce0 = 0
    THEN [sess |-> IdleSess, regs |-> regs, done |-> << >>]
    ELSE IF ck0 = 0 /\ ck1 = 1
    THEN IF Len(s.bytes) >= 1 /\ CmdIsRead(s.bytes[1])
         THEN [sess |-> s, regs |-> regs, done |-> << >>]
         ELSE IF Len(s.bits) < 7
         THEN [sess |-> [s EXCEPT !.bits = Append(s.bits, d)],
               regs |-> regs, done |-> << >>]
         ELSE LET got == Append(s.bytes, BitsToByte(Append(s.bits, d)))
              IN  [sess |-> [s EXCEPT !.bits = << >>, !.bytes = got],
                   regs |-> IF env = "chip" THEN ChipWrite(regs, got) ELSE regs,
                   done |-> << >>]
    ELSE IF ck0 = 1 /\ ck1 = 0
    THEN IF Len(s.bytes) >= 1 /\ CmdIsRead(s.bytes[1])
         THEN [sess |-> [s EXCEPT !.nout = s.nout + 1],
               regs |-> regs, done |-> << >>]
         ELSE [sess |-> s, regs |-> regs, done |-> << >>]
    ELSE [sess |-> s, regs |-> regs, done |-> << >>]

\* the level digitalRead(io) returns: the latch of an output, else what the
\* chip drives on the pin wired to its data line, else what a floating pin
\* reads
DataLine ==
    IF pinDir[io] = "OUTPUT" THEN pinOut[io]
    ELSE IF env = "chip"
         THEN IF io = Wiring.io /\ ChipDrives(sess)
              THEN ChipOutBit(sess, chipRegs) ELSE 0
    ELSE IF env = "float_high" THEN 1 ELSE 0

\* nothing observed yet
\*   rises   rising clock edges in the transfer in progress
\*   falls   falling clock edges since the later of the last rising edge made
\*           by togglewrite (line 493) and the last digitalRead(io)
\*   samples levels returned by digitalRead(io) in the toggleread last entered
\*   rx      bytes made of each 8 samples, least-significant bit first, in
\*           the transfer in progress
\*   pinOps  digitalWrite / pinMode / digitalRead calls of the operation in
\*           progress
\*   arg     arguments of read(int) / write(int, uint8_t) when called directly
\*   prev    kind of the session closed last: "none", "read" or "write"
\*   bound   whether a constructor had bound the pins when the operation in
\*           progress was called
NoObs == [rises |-> 0, falls |-> 0, samples |-> << >>, rx |-> << >>,
          pinOps |-> 0, arg |-> << >>, prev |-> "none", bound |-> FALSE]

\* what the observer records of a digitalWrite / pinMode leaving the pins
\* as `after`
Observe(after) ==
    LET ce0 == Level(pinDir, pinOut, Wiring.rst)
        ce1 == Level(after.dir, after.out, Wiring.rst)
        ck0 == Level(pinDir, pinOut, Wiring.sclk)
        ck1 == Level(after.dir, after.out, Wiring.sclk)
        up == ck0 = 0 /\ ck1 = 1
        down == ck0 = 1 /\ ck1 = 0
    IN  [obs EXCEPT
           !.pinOps = @ + 1,
           !.rises = IF up THEN @ + 1 ELSE @,
           !.falls = IF up /\ fpc = "tw493" THEN 0
                     ELSE IF down THEN @ + 1 ELSE @,
           !.prev = IF ce0 = 1 /\ ce1 = 0
                    THEN IF sess.bytes # << >> /\ CmdIsRead(sess.bytes[1])
                         THEN "read" ELSE "write"
                    ELSE @]

\* what the observer records of a digitalRead(io) returning lvl
Sampled(lvl) ==
    LET got == IF Len(obs.samples) = 8 THEN << lvl >>
               ELSE Append(obs.samples, lvl)
    IN  [obs EXCEPT
           !.pinOps = @ + 1,
           !.falls = 0,
           !.samples = got,
           !.rx = IF Len(got) = 8 THEN Append(@, BitsToByte(got)) ELSE @]

\* the observer at the entry of a transfer
ObsAtEnter == [obs EXCEPT !.rises = 0, !.falls = 0, !.samples = << >>,
                          !.rx = << >>]

\* a GPIO call that leaves the pins as `after`, and what the chip makes of it
Gpio(after) ==
    LET r == React(sess, chipRegs,
                   Level(pinDir, pinOut, Wiring.rst),
                   Level(after.dir, after.out, Wiring.rst),
                   Level(pinDir, pinOut, Wiring.sclk),
                   Level(after.dir, after.out, Wiring.sclk),
                   Level(after.dir, after.out, Wiring.io))
    IN  /\ pinDir' = after.dir
        /\ pinOut' = after.out
        /\ sess' = r.sess
        /\ chipRegs' = r.regs
        /\ log' = log \o r.done
        /\ obs' = Observe(after)

digitalWrite(p, v) == Gpio(AfterDigitalWrite(p, v))

pinMode(p, m) == Gpio(AfterPinMode(p, m))

-----------------------------------------------------------------------------
(* Inputs *)

Tm(sec, min, hour, wday, day, month, year) ==
    [Second |-> sec, Minute |-> min, Hour |-> hour, Wday |-> wday,
     Day |-> day, Month |-> month, Year |-> year]

NoTm == Tm(0, 0, 0, 0, 0, 0, 0)

ConcreteTm == Tm(45, 30, 23, 3, 15, 6, 53)
MinTm == Tm(0, 0, 0, 1, 1, 1, 30)
MaxTm == Tm(59, 59, 23, 7, 31, 12, 129)

\* time records handed to write(tm) and set() in Spec: the valid corners,
\* and records outside the chip's ranges
TmSet == {ConcreteTm, MinTm, MaxTm, Tm(19, 48, 12, 5, 29, 2, 100),
          Tm(8, 9, 7, 2, 9, 10, 99), Tm(30, 0, 20, 6, 10, 11, 70),
          Tm(60, 99, 24, 8, 32, 13, 130), Tm(255, 255, 255, 255, 255, 255, 29)}

\* register contents the chip may hold before the driver first runs:
\* midnight in 24-hour mode; a write-protected, halted chip in 12-hour mode
\* (3 PM) with the trickle charger on; 12 AM in 12-hour mode
InitRegs == { << 0, 0, 0, 1, 1, 1, 0, 0, 0 >>,
              << 197, 48, 163, 21, 6, 3, 83, 128, 165 >>,
              << 89, 89, 146, 49, 18, 7, 153, 0, 0 >> }

EnvSet == {"chip", "float_low", "float_high"}

\* addresses given to read(int)
AddrSet == {DS1302_SECONDS, 133, DS1302_ENABLE, DS1302_TRICKLE + 1, -126}

\* (address, data) given to write(int, uint8_t): write protect on through
\* an odd address, clock halt, a RAM byte, write protect off through an
\* address wider than a byte
WriteRegArgs == { << DS1302_ENABLE + 1, 128 >>, << DS1302_SECONDS, 128 >>,
                  << 193, 90 >>, << 256 + DS1302_ENABLE, 0 >> }

-----------------------------------------------------------------------------
(* Initial state: nothing constructed, all pins high impedance *)

Init ==
    /\ exists = FALSE
    /\ io = 0 /\ sclk = 0 /\ rst = 0
    /\ pinDir = [p \in Pins |-> "INPUT"]
    /\ pinOut = [p \in Pins |-> 0]
    /\ op = "idle" /\ pc = "idle" /\ fn = "none" /\ fpc = "none"
    /\ address = 0 /\ data = 0
    /\ twData = 0 /\ twRelease = FALSE /\ trData = 0 /\ i = 0 /\ nb = 0
    /\ tm = NoTm
    /\ rtc = ZeroImage
    /\ ret = << >>
    /\ chipRegs \in InitRegs
    /\ sess = IdleSess
    /\ env \in EnvSet
    /\ log = << >>
    /\ starts = 0 /\ stops = 0
    /\ lastOp = "none"
    /\ lastWrite = << >>
    /\ regsAtCall = chipRegs
    /\ obs = NoObs

ctl == << op, pc, fn, fpc, address, data, twData, twRelease, trData, i, nb,
          tm, rtc, ret >>
statics == << exists, io, sclk, rst >>
wires == << pinDir, pinOut, sess, chipRegs, log >>
hist == << starts, stops, lastOp, lastWrite, regsAtCall >>

-----------------------------------------------------------------------------
(* DS1302RTC::DS1302RTC *)

\* (a variant that binds the pins but does not set the flag)
Construct_no_flag(_io, _sclk, _rst) ==
    /\ op = "idle"
    /\ io' = _io
    /\ sclk' = _sclk
    /\ rst' = _rst
    /\ UNCHANGED << exists, ctl, wires, hist, env, obs >>

Construct(_io, _sclk, _rst) ==
    /\ op = "idle"
    /\ io' = _io
    /\ sclk' = _sclk
    /\ rst' = _rst
    /\ exists' = TRUE
    /\ UNCHANGED << ctl, wires, hist, env, obs >>

-----------------------------------------------------------------------------
(* Entry to the public operations and to read(int) *)

\* DS1302RTC::chipPresent
chipPresent == exists

\* the operations are static members: they can be called before any
\* constructor has run, and then work on pin 0
Call(name, at, arg) ==
    /\ op = "idle"
    /\ op' = name
    /\ pc' = at
    /\ tm' = arg
    /\ rtc' = ZeroImage
    /\ ret' = << >>
    /\ log' = << >>
    /\ regsAtCall' = chipRegs
    /\ lastWrite' = IF name \in {"read", "get"} THEN lastWrite ELSE << >>
    /\ lastOp' = "none"
    /\ address' = 0 /\ data' = 0
    /\ twData' = 0 /\ twRelease' = FALSE /\ trData' = 0 /\ i' = 0 /\ nb' = 0
    /\ starts' = 0 /\ stops' = 0
    /\ obs' = [NoObs EXCEPT !.prev = obs.prev, !.bound = exists]
    /\ UNCHANGED << statics, pinDir, pinOut, sess, chipRegs, env, fn, fpc >>

CallGet == Call("get", "r250", NoTm)

\* set(t): breakTime(t, tm) of the Time library fills tm from t, so the
\* argument is given as the record x that t breaks into; write(tm) returns
\* to set at line 245, which returns the same value
CallSet(x) == Call("set", "w271", x)

CallRead == Call("read", "r250", NoTm)

CallWrite(x) == Call("write", "w271", x)

CallHalt == Call("halt", "h302", NoTm)

Return(value) ==
    /\ fn = "none"
    /\ lastOp' = op
    /\ op' = "idle"
    /\ pc' = "idle"
    /\ ret' = value
    /\ UNCHANGED << statics, wires, env, fn, fpc, address, data, twData,
                    twRelease, trData, i, nb, tm, rtc, starts, stops,
                    regsAtCall, obs >>

-----------------------------------------------------------------------------
(* The four transfers: what each does after n bytes have been exchanged    *)
(* (lines 315-328, 340-355, 370-383, 397-407)                              *)

TogglewriteCall(d, r) == [kind |-> "togglewrite", data |-> U8(d), release |-> r]
TogglereadCall == [kind |-> "toggleread", data |-> 0, release |-> FALSE]
StopCall == [kind |-> "stop", data |-> 0, release |-> FALSE]

\* (a variant whose bursts stop one byte short)
NextCall_short_burst(f, n) ==
    CASE f = "clock_burst_read" ->
            IF n = 0 THEN TogglewriteCall(DS1302_CLOCK_BURST_READ, TRUE)
            ELSE IF n <= 7 THEN TogglereadCall
            ELSE StopCall
      [] f = "clock_burst_write" ->
            IF n = 0 THEN TogglewriteCall(DS1302_CLOCK_BURST_WRITE, FALSE)
            ELSE IF n <= 7 THEN TogglewriteCall(rtc[n], FALSE)
            ELSE StopCall
      [] f = "read_reg" ->
            IF n = 0 THEN TogglewriteCall(address, TRUE)
            ELSE IF n = 1 THEN TogglereadCall
            ELSE StopCall
      [] f = "write_reg" ->
            IF n = 0 THEN TogglewriteCall(address, FALSE)
            ELSE IF n = 1 THEN TogglewriteCall(data, FALSE)
            ELSE StopCall

NextCall(f, n) ==
    CASE f = "clock_burst_read" ->
            IF n = 0 THEN TogglewriteCall(DS1302_CLOCK_BURST_READ, TRUE)
            ELSE IF n <= 8 THEN TogglereadCall
            ELSE StopCall
      [] f = "clock_burst_write" ->
            IF n = 0 THEN TogglewriteCall(DS1302_CLOCK_BURST_WRITE, FALSE)
            ELSE IF n <= 8 THEN TogglewriteCall(rtc[n], FALSE)
            ELSE StopCall
      [] f = "read_reg" ->
            IF n = 0 THEN TogglewriteCall(address, TRUE)
            ELSE IF n = 1 THEN TogglereadCall
            ELSE StopCall
      [] f = "write_reg" ->
            IF n = 0 THEN TogglewriteCall(address, FALSE)
            ELSE IF n = 1 THEN TogglewriteCall(data, FALSE)
            ELSE StopCall

\* the transfer moves on after n bytes
Proceed(n, got) ==
    LET c == NextCall(fn, n)
    IN  /\ nb' = n
        /\ fpc' = CASE c.kind = "togglewrite" -> "tw489"
                    [] c.kind = "toggleread" -> "tr462"
                    [] c.kind = "stop" -> "stop442"
        /\ twData' = IF c.kind = "togglewrite" THEN c.data ELSE twData
        /\ twRelease' = IF c.kind = "togglewrite" THEN c.release ELSE twRelease
        /\ trData' = IF c.kind = "toggleread" THEN 0 ELSE got
        /\ i' = 0

\* a call of one of the four transfers from the position pc
Enter(f, a, d) ==
    /\ fn = "none"
    /\ fn' = f
    /\ address' = a
    /\ data' = d
    /\ fpc' = "start422"
    /\ nb' = 0
    /\ starts' = 0
    /\ stops' = 0
    /\ obs' = ObsAtEnter
    /\ UNCHANGED << statics, wires, env, op, pc, twData, twRelease, trData,
                    i, tm, rtc, ret, lastOp, lastWrite, regsAtCall >>

\* (a variant of read(int) without line 374)
CallReadReg_no_readbit(a) ==
    /\ op = "idle"
    /\ op' = "read_reg"
    /\ pc' = "rr376"
    /\ fn' = "read_reg"
    /\ address' = a
    /\ data' = 0
    /\ fpc' = "start422"
    /\ nb' = 0
    /\ starts' = 0
    /\ stops' = 0
    /\ tm' = NoTm
    /\ rtc' = ZeroImage
    /\ ret' = << >>
    /\ log' = << >>
    /\ regsAtCall' = chipRegs
    /\ lastWrite' = << >>
    /\ lastOp' = "none"
    /\ twData' = 0 /\ twRelease' = FALSE /\ trData' = 0 /\ i' = 0
    /\ obs' = [NoObs EXCEPT !.prev = obs.prev, !.bound = exists,
                            !.arg = << a >>]
    /\ UNCHANGED << statics, pinDir, pinOut, sess, chipRegs, env >>

\* read(int address), entered directly
CallReadReg(a) ==
    /\ op = "idle"
    /\ op' = "read_reg"
    /\ pc' = "rr376"
    /\ fn' = "read_reg"
    /\ address' = bitSet(a, DS1302_READBIT)
    /\ data' = 0
    /\ fpc' = "start422"
    /\ nb' = 0
    /\ starts' = 0
    /\ stops' = 0
    /\ tm' = NoTm
    /\ rtc' = ZeroImage
    /\ ret' = << >>
    /\ log' = << >>
    /\ regsAtCall' = chipRegs
    /\ lastWrite' = << >>
    /\ lastOp' = "none"
    /\ twData' = 0 /\ twRelease' = FALSE /\ trData' = 0 /\ i' = 0
    /\ obs' = [NoObs EXCEPT !.prev = obs.prev, !.bound = exists,
                            !.arg = << a >>]
    /\ UNCHANGED << statics, pinDir, pinOut, sess, chipRegs, env >>

\* write(int address, uint8_t data), called from write(tm) and halt
EnterWriteReg(a, d) == Enter("write_reg", bitClear(a, DS1302_READBIT), d)

\* write(int address, uint8_t data), entered directly
CallWriteReg(a, d) ==
    /\ op = "idle"
    /\ op' = "write_reg"
    /\ pc' = "wr401"
    /\ fn' = "write_reg"
    /\ address' = bitClear(a, DS1302_READBIT)
    /\ data' = U8(d)
    /\ fpc' = "start422"
    /\ nb' = 0
    /\ starts' = 0
    /\ stops' = 0
    /\ tm' = NoTm
    /\ rtc' = ZeroImage
    /\ ret' = << >>
    /\ log' = << >>
    /\ regsAtCall' = chipRegs
    /\ lastWrite' = << >>
    /\ lastOp' = "none"
    /\ twData' = 0 /\ twRelease' = FALSE /\ trData' = 0 /\ i' = 0
    /\ obs' = [NoObs EXCEPT !.prev = obs.prev, !.bound = exists,
                            !.arg = << a, d >>]
    /\ UNCHANGED << statics, pinDir, pinOut, sess, chipRegs, env >>

-----------------------------------------------------------------------------
(* DS1302RTC::start *)

InFn(at) == fn # "none" /\ fpc = at

StartStep(at, to) ==
    /\ InFn(at)
    /\ fpc' = to
    /\ UNCHANGED << statics, env, op, pc, fn, address, data, twData,
                    twRelease, trData, i, nb, tm, rtc, ret, stops, lastOp,
                    lastWrite, regsAtCall >>

Start422 ==
    /\ StartStep("start422", "start423")
    /\ digitalWrite(rst, LOW)
    /\ starts' = starts + 1

Start423 ==
    /\ StartStep("start423", "start425")
    /\ pinMode(rst, "OUTPUT")
    /\ UNCHANGED starts

\* (a variant that writes the clock pin high)
Start425_clock_high ==
    /\ StartStep("start425", "start426")
    /\ digitalWrite(sclk, HIGH)
    /\ UNCHANGED starts

Start425 ==
    /\ StartStep("start425", "start426")
    /\ digitalWrite(sclk, LOW)
    /\ UNCHANGED starts

Start426 ==
    /\ StartStep("start426", "start428")
    /\ pinMode(sclk, "OUTPUT")
    /\ UNCHANGED starts

\* (a variant that writes the data pin low and leaves its direction)
Start428_keeps_direction ==
    /\ StartStep("start428", "start430")
    /\ digitalWrite(io, LOW)
    /\ UNCHANGED starts

Start428 ==
    /\ StartStep("start428", "start430")
    /\ pinMode(io, "OUTPUT")
    /\ UNCHANGED starts

Start430 ==
    /\ InFn("start430")
    /\ digitalWrite(rst, HIGH)
    /\ Proceed(0, trData)
    /\ UNCHANGED << statics, env, op, pc, fn, address, data, tm, rtc, ret,
                    hist >>

-----------------------------------------------------------------------------
(* DS1302RTC::togglewrite *)

\* (a variant that sends the most-significant bit first)
TW489_msb_first ==
    /\ InFn("tw489")
    /\ digitalWrite(io, bitRead(twData, 7 - i))
    /\ fpc' = "tw493"
    /\ UNCHANGED << statics, env, op, pc, fn, address, data, twData,
                    twRelease, trData, i, nb, tm, rtc, ret, hist >>

TW489 ==
    /\ InFn("tw489")
    /\ digitalWrite(io, bitRead(twData, i))
    /\ fpc' = "tw493"
    /\ UNCHANGED << statics, env, op, pc, fn, address, data, twData,
                    twRelease, trData, i, nb, tm, rtc, ret, hist >>

TW493 ==
    /\ InFn("tw493")
    /\ digitalWrite(sclk, HIGH)
    /\ fpc' = "tw496"
    /\ UNCHANGED << statics, env, op, pc, fn, address, data, twData,
                    twRelease, trData, i, nb, tm, rtc, ret, hist >>

\* (a variant that lowers the clock after the last bit of a released byte,
\* keeping the data line driven)
TW505_lowers_clock ==
    /\ InFn("tw496")
    /\ twRelease /\ i = 7
    /\ digitalWrite(sclk, LOW)
    /\ Proceed(nb + 1, trData)
    /\ UNCHANGED << statics, env, op, pc, fn, address, data, tm, rtc, ret,
                    hist >>

TW505 ==
    /\ InFn("tw496")
    /\ twRelease /\ i = 7
    /\ pinMode(io, "INPUT")
    /\ Proceed(nb + 1, trData)
    /\ UNCHANGED << statics, env, op, pc, fn, address, data, tm, rtc, ret,
                    hist >>

TW512 ==
    /\ InFn("tw496")
    /\ ~(twRelease /\ i = 7)
    /\ digitalWrite(sclk, LOW)
    /\ IF i < 7
       THEN /\ i' = i + 1
            /\ fpc' = "tw489"
            /\ UNCHANGED << nb, twData, twRelease, trData >>
       ELSE Proceed(nb + 1, trData)
    /\ UNCHANGED << statics, env, op, pc, fn, address, data, tm, rtc, ret,
                    hist >>

-----------------------------------------------------------------------------
(* DS1302RTC::toggleread *)

TR462 ==
    /\ InFn("tr462")
    /\ digitalWrite(sclk, HIGH)
    /\ fpc' = "tr466"
    /\ UNCHANGED << statics, env, op, pc, fn, address, data, twData,
                    twRelease, trData, i, nb, tm, rtc, ret, hist >>

\* (a variant that leaves the clock high before the sample)
TR466_stays_high ==
    /\ InFn("tr466")
    /\ digitalWrite(sclk, HIGH)
    /\ fpc' = "tr470"
    /\ UNCHANGED << statics, env, op, pc, fn, address, data, twData,
                    twRelease, trData, i, nb, tm, rtc, ret, hist >>

TR466 ==
    /\ InFn("tr466")
    /\ digitalWrite(sclk, LOW)
    /\ fpc' = "tr470"
    /\ UNCHANGED << statics, env, op, pc, fn, address, data, twData,
                    twRelease, trData, i, nb, tm, rtc, ret, hist >>

\* line 470, and at the end of the loop the return of the byte to the
\* caller: *p++ = toggleread() (line 326) or data = toggleread() (line 379)
TR470 ==
    /\ InFn("tr470")
    /\ LET got == bitWrite(trData, i, DataLine)
       IN  IF i < 7
           THEN /\ trData' = got
                /\ i' = i + 1
                /\ fpc' = "tr462"
                /\ UNCHANGED << nb, twData, twRelease, rtc, data >>
           ELSE /\ Proceed(nb + 1, got)
                /\ rtc' = IF fn = "clock_burst_read"
                          THEN [rtc EXCEPT ![nb] = got] ELSE rtc
                /\ data' = IF fn = "read_reg" THEN got ELSE data
    /\ obs' = Sampled(DataLine)
    /\ UNCHANGED << statics, wires, env, op, pc, fn, address, tm, ret, hist >>

-----------------------------------------------------------------------------
(* DS1302RTC::stop, and the return of the transfer to its caller *)

\* (a variant that leaves chip enable high)
StopLevel_high == HIGH

StopLevel == LOW

\* (a variant of write(tm) without line 274)
After_skips_trickle(at) ==
    CASE at = "w271" -> "w279"
      [] at = "w274" -> "w279"
      [] at = "w295" -> "w297"
      [] at = "r250" -> "r252"
      [] at = "h302" -> "h303"
      [] at = "rr376" -> "rr382"
      [] at = "wr401" -> "wr407"

After(at) ==
    CASE at = "w271" -> "w274"
      [] at = "w274" -> "w279"
      [] at = "w295" -> "w297"
      [] at = "r250" -> "r252"
      [] at = "h302" -> "h303"
      [] at = "rr376" -> "rr382"
      [] at = "wr401" -> "wr407"

Stop442 ==
    /\ InFn("stop442")
    /\ digitalWrite(rst, StopLevel)
    /\ stops' = stops + 1
    /\ fn' = "none"
    /\ fpc' = "none"
    /\ pc' = After(pc)
    /\ UNCHANGED << statics, env, op, address, data, twData, twRelease,
                    trData, i, nb, tm, rtc, ret, starts, lastOp, lastWrite,
                    regsAtCall >>

-----------------------------------------------------------------------------
(* DS1302RTC::write(tmElements_t&) and set *)

Write271 == pc = "w271" /\ EnterWriteReg(DS1302_ENABLE, 0)

Write274 == pc = "w274" /\ EnterWriteReg(DS1302_TRICKLE, 0)

Write279 ==
    /\ pc = "w279" /\ fn = "none"
    /\ rtc' = Encode(tm)
    /\ pc' = "w295"
    /\ UNCHANGED << statics, wires, env, hist, op, fn, fpc, address, data,
                    twData, twRelease, trData, i, nb, tm, ret, obs >>

Write295 == pc = "w295" /\ Enter("clock_burst_write", address, data)

WriteResult == TRUE

Write297 ==
    /\ pc = "w297"
    /\ Return(<< WriteResult >>)
    /\ lastWrite' = IF obs.bound THEN << tm >> ELSE << >>

-----------------------------------------------------------------------------
(* DS1302RTC::read(tmElements_t&) and get *)

Read250 == pc = "r250" /\ Enter("clock_burst_read", address, data)

\* (a variant that reads again when the image is all ones)
Read252_retries ==
    /\ pc = "r252" /\ fn = "none"
    /\ tm' = Decode(rtc)
    /\ pc' = IF rtc = OnesImage THEN "r250" ELSE "r263"
    /\ UNCHANGED << statics, wires, env, hist, op, fn, fpc, address, data,
                    twData, twRelease, trData, i, nb, rtc, ret, obs >>

Read252 ==
    /\ pc = "r252" /\ fn = "none"
    /\ tm' = Decode(rtc)
    /\ pc' = "r263"
    /\ UNCHANGED << statics, wires, env, hist, op, fn, fpc, address, data,
                    twData, twRelease, trData, i, nb, rtc, ret, obs >>

\* (a variant that reports a data line stuck high or low)
ReadResult_checked(s) == s # OnesImage /\ s # ZeroImage

ReadResult(s) == TRUE

\* return true, to the caller or to get (line 238), which drops the value
Read263 ==
    /\ pc = "r263"
    /\ IF op = "get"
       THEN /\ fn = "none"
            /\ pc' = "g239"
            /\ UNCHANGED << statics, wires, env, hist, op, fn, fpc, address,
                            data, twData, twRelease, trData, i, nb, tm, rtc,
                            ret, obs >>
       ELSE /\ Return(<< ReadResult(rtc) >>)
            /\ UNCHANGED lastWrite

\* get: return makeTime(tm); makeTime is the Time library's, so the value
\* returned is kept as the record it is made from
Get239 ==
    /\ pc = "g239"
    /\ Return(<< tm >>)
    /\ UNCHANGED lastWrite

-----------------------------------------------------------------------------
(* DS1302RTC::halt *)

\* (a variant that sets the clock-halt bit of the seconds register)
Halt302_clock_halt == pc = "h302" /\ EnterWriteReg(DS1302_SECONDS, 128)

Halt302 == pc = "h302" /\ EnterWriteReg(DS1302_ENABLE, 0)

Halt303 ==
    /\ pc = "h303"
    /\ Return(<< >>)
    /\ UNCHANGED lastWrite

-----------------------------------------------------------------------------
(* DS1302RTC::read(int): return (data) *)

ReadReg382 ==
    /\ pc = "rr382"
    /\ Return(<< data >>)
    /\ UNCHANGED lastWrite

-----------------------------------------------------------------------------
(* DS1302RTC::write(int, uint8_t): the end of the body *)

WriteReg407 ==
    /\ pc = "wr407"
    /\ Return(<< >>)
    /\ UNCHANGED lastWrite

-----------------------------------------------------------------------------

Next ==
    \/ Construct(Wiring.io, Wiring.sclk, Wiring.rst)
    \/ CallGet
    \/ \E x \in TmSet : CallSet(x)
    \/ CallRead
    \/ \E x \in TmSet : CallWrite(x)
    \/ CallHalt
    \/ \E a \in AddrSet : CallReadReg(a)
    \/ \E w \in WriteRegArgs : CallWriteReg(w[1], w[2])
    \/ Start422 \/ Start423 \/ Start425 \/ Start426 \/ Start428 \/ Start430
    \/ TW489 \/ TW493 \/ TW505 \/ TW512
    \/ TR462 \/ TR466 \/ TR470
    \/ Stop442
    \/ Write271 \/ Write274 \/ Write279 \/ Write295 \/ Write297
    \/ Read250 \/ Read252 \/ Read263 \/ Get239
    \/ Halt302 \/ Halt303
    \/ ReadReg382
    \/ WriteReg407

Spec == Init /\ [][Next]_vars

\* the steps of an operation in progress, but for the encoding of lines
\* 279-293 (Write279): everything that calls, returns or moves a pin
Run ==
    \/ Start422 \/ Start423 \/ Start425 \/ Start426 \/ Start428 \/ Start430
    \/ TW489 \/ TW493 \/ TW505 \/ TW512
    \/ TR462 \/ TR466 \/ TR470
    \/ Stop442
    \/ Write271 \/ Write274 \/ Write295 \/ Write297
    \/ Read250 \/ Read252 \/ Read263 \/ Get239
    \/ Halt302 \/ Halt303
    \/ ReadReg382
    \/ WriteReg407

-----------------------------------------------------------------------------
(* CodecSpec: write(tm) and read(tm) as whole handlers, each taken from    *)
(* call to return in one step, over sweeps of every member of the time     *)
(* record and of every byte of the register image.                         *)

TmFields == {"Second", "Minute", "Hour", "Wday", "Day", "Month", "Year"}

\* every uint8_t value in each member, around the three valid records
CodecTms ==
    {[b EXCEPT ![f] = v] : b \in {ConcreteTm, MinTm, MaxTm},
                           f \in TmFields, v \in 0..255}

\* every value of each of the 8 clock registers, around three images
CodecRegs ==
    {[b EXCEPT ![k] = v] :
        b \in InitRegs \cup {<< 255, 255, 255, 255, 255, 255, 255, 255, 255 >>},
        k \in 1..8, v \in 0..255}

CodecInit ==
    /\ exists = TRUE
    /\ io = Wiring.io /\ sclk = Wiring.sclk /\ rst = Wiring.rst
    /\ pinDir = [p \in Pins |-> "INPUT"]
    /\ pinOut = [p \in Pins |-> 0]
    /\ op = "idle" /\ pc = "idle" /\ fn = "none" /\ fpc = "none"
    /\ address = 0 /\ data = 0
    /\ twData = 0 /\ twRelease = FALSE /\ trData = 0 /\ i = 0 /\ nb = 0
    /\ rtc = ZeroImage
    /\ ret = << >>
    /\ \/ tm \in CodecTms /\ chipRegs \in InitRegs
       \/ tm = ConcreteTm /\ chipRegs \in CodecRegs
    /\ sess = IdleSess
    /\ env = "chip"
    /\ log = << >>
    /\ starts = 0 /\ stops = 0
    /\ lastOp = "none"
    /\ lastWrite = << >>
    /\ regsAtCall = chipRegs
    /\ obs = NoObs

\* the three sessions of write(x), as the bytes on the wire
WriteSessions(x) ==
    << << bitClear(DS1302_ENABLE, DS1302_READBIT), 0 >>,
       << bitClear(DS1302_TRICKLE, DS1302_READBIT), 0 >>,
       << DS1302_CLOCK_BURST_WRITE >> \o Encode(x) >>

\* the registers after write(x) on a chip holding regs
RegsAfterWrite(regs, x) ==
    LET w == WriteSessions(x)
    IN  ChipWrite(ChipWrite(ChipWrite(regs, w[1]), w[2]), w[3])

\* GPIO calls of start, of the exchange of one byte, and of stop
StartOps == 6
ByteOps == 3 * 8
StopOps == 1

\* GPIO calls of a transfer of n bytes
TransferOps(n) == StartOps + n * ByteOps + StopOps

\* what the observer has recorded when write(tm) returns: the 9 bytes of
\* the burst write took 72 rising edges, the last followed by one falling
\* edge
ObsAfterWrite ==
    [rises |-> 9 * 8, falls |-> 1, samples |-> << >>, rx |-> << >>,
     pinOps |-> TransferOps(2) + TransferOps(2) + TransferOps(9),
     arg |-> << >>, prev |-> "write", bound |-> TRUE]

\* what the observer has recorded when read(tm) returns bytes b: the first
\* digitalWrite(sclk, HIGH) of the first toggleread finds the clock high
ObsAfterRead(b) ==
    [rises |-> 9 * 8 - 1, falls |-> 0,
     samples |-> [k \in 1..8 |-> bitRead(b[8], k - 1)], rx |-> b,
     pinOps |-> TransferOps(9), arg |-> << >>, prev |-> "read",
     bound |-> TRUE]

\* write(tm) from call (line 266) to return (line 297)
CodecWrite ==
    /\ op = "idle"
    /\ chipRegs' = RegsAfterWrite(chipRegs, tm)
    /\ regsAtCall' = chipRegs
    /\ rtc' = Encode(tm)
    /\ log' = WriteSessions(tm)
    /\ ret' = << WriteResult >>
    /\ lastOp' = "write"
    /\ lastWrite' = << tm >>
    /\ pinDir' = [p \in Pins |-> IF p \in WiredPins THEN "OUTPUT"
                                 ELSE pinDir[p]]
    /\ pinOut' = [p \in Pins |->
                    IF p = io THEN bitRead(Encode(tm)[8], 7)
                    ELSE IF p \in WiredPins THEN 0 ELSE pinOut[p]]
    /\ address' = bitClear(DS1302_TRICKLE, DS1302_READBIT)
    /\ data' = 0
    /\ twData' = Encode(tm)[8]
    /\ twRelease' = FALSE
    /\ trData' = 0
    /\ i' = 0
    /\ nb' = 9
    /\ starts' = 1
    /\ stops' = 1
    /\ obs' = ObsAfterWrite
    /\ UNCHANGED << statics, env, op, pc, fn, fpc, tm, sess >>

\* read(tm) from call (line 248) to return (line 263)
CodecRead ==
    /\ op = "idle"
    /\ rtc' = ReadStream(chipRegs, DS1302_CLOCK_BURST_READ)
    /\ tm' = Decode(rtc')
    /\ regsAtCall' = chipRegs
    /\ log' = << << DS1302_CLOCK_BURST_READ >> >>
    /\ ret' = << ReadResult(rtc') >>
    /\ lastOp' = "read"
    /\ pinDir' = [p \in Pins |-> IF p = io THEN "INPUT"
                                 ELSE IF p \in WiredPins THEN "OUTPUT"
                                 ELSE pinDir[p]]
    /\ pinOut' = [p \in Pins |-> IF p \in WiredPins THEN 0 ELSE pinOut[p]]
    /\ address' = 0
    /\ data' = 0
    /\ twData' = DS1302_CLOCK_BURST_READ
    /\ twRelease' = TRUE
    /\ trData' = rtc'[8]
    /\ i' = 0
    /\ nb' = 9
    /\ starts' = 1
    /\ stops' = 1
    /\ obs' = ObsAfterRead(rtc')
    /\ UNCHANGED << statics, env, op, pc, fn, fpc, chipRegs, sess, lastWrite >>

CodecNext == CodecWrite \/ CodecRead

CodecSpec == CodecInit /\ [][CodecNext]_vars

\* In Spec, against a chip, every return of a write(tm) or read(tm) called
\* after a constructor has bound the pins leaves the state that CodecWrite
\* and CodecRead give from the state at the call.
WholeHandlersAgree ==
    (op = "idle" /\ env = "chip" /\ obs.bound) =>
        /\ lastOp = "write" =>
              /\ chipRegs = RegsAfterWrite(regsAtCall, tm)
              /\ rtc = Encode(tm)
              /\ log = WriteSessions(tm)
              /\ ret = << WriteResult >>
              /\ lastWrite = << tm >>
              /\ \A p \in WiredPins :
                    /\ pinDir[p] = "OUTPUT"
                    /\ pinOut[p] = IF p = io THEN bitRead(Encode(tm)[8], 7)
                                   ELSE 0
              /\ address = bitClear(DS1302_TRICKLE, DS1302_READBIT)
              /\ data = 0 /\ twData = Encode(tm)[8] /\ twRelease = FALSE
              /\ trData = 0 /\ i = 0 /\ nb = 9 /\ starts = 1 /\ stops = 1
              /\ sess = IdleSess
              /\ obs = ObsAfterWrite
        /\ lastOp = "read" =>
              /\ rtc = ReadStream(chipRegs, DS1302_CLOCK_BURST_READ)
              /\ tm = Decode(rtc)
              /\ regsAtCall = chipRegs
              /\ log = << << DS1302_CLOCK_BURST_READ >> >>
              /\ ret = << ReadResult(rtc) >>
              /\ \A p \in WiredPins :
                    /\ pinDir[p] = IF p = io THEN "INPUT" ELSE "OUTPUT"
                    /\ pinOut[p] = 0
              /\ address = 0 /\ data = 0
              /\ twData = DS1302_CLOCK_BURST_READ /\ twRelease = TRUE
              /\ trData = rtc[8] /\ i = 0 /\ nb = 9
              /\ starts = 1 /\ stops = 1
              /\ sess = IdleSess
              /\ obs = ObsAfterRead(rtc)

-----------------------------------------------------------------------------
(* Properties *)

InRange(x) ==
    /\ x.Second \in 0..59 /\ x.Minute \in 0..59 /\ x.Hour \in 0..23
    /\ x.Wday \in 1..7 /\ x.Day \in 1..31 /\ x.Month \in 1..12
    /\ x.Year \in 30..129

\* C1 (CodecSpec): burst round trip.  Against a chip that keeps the 8
\* burst-written bytes, a read(tm2) that follows write(tm) of a record with
\* every member in its valid range yields tm2 = tm in all seven members.
C1_BurstRoundTrip ==
    (env = "chip" /\ lastOp = "read" /\ lastWrite # << >>
                  /\ InRange(lastWrite[1]))
        => tm = lastWrite[1]

\* the concrete record of the claim has been written and read back
C1_Witness ==
    /\ lastOp = "read"
    /\ lastWrite = << ConcreteTm >>
    /\ tm = Tm(45, 30, 23, 3, 15, 6, 53)
    /\ bitRead(regsAtCall[ControlReg + 1], 7) = 0

\* C2 (CodecSpec): 12-hour decode.  For a register image whose hour byte
\* has the mode bit set, read() yields Hour = hour12 + 12 when the AM/PM
\* bit is 1 and Hour = hour12 when it is 0, hour12 = 10 * tens + units.
C2_Hour12Decode ==
    (lastOp = "read" /\ bitRead(rtc[3], 7) = 1)
        => tm.Hour = 10 * bitRead(rtc[3], 4) + (rtc[3] % 16)
                        + (IF bitRead(rtc[3], 5) = 1 THEN 12 ELSE 0)

\* a constructor had bound the pins when the operation in progress, or the
\* one that returned last, was called: it works on the lines of the chip.
\* Called earlier, it works on pin 0, and no line of the chip moves.
Bound == obs.bound

\* togglewrite is between its first line and its return; the calls before
\* it in the transfer were all togglewrite
InTogglewrite == fn # "none" /\ fpc \in {"tw489", "tw493", "tw496"}

InToggleread == fn # "none" /\ fpc \in {"tr462", "tr466", "tr470"}

\* the transfer in progress calls togglewrite for the bytes `want` in
\* order, none with release, then stop, and never toggleread
Sending(want) ==
    /\ ~InToggleread
    /\ InTogglewrite => (nb < Len(want) /\ twData = want[nb + 1] /\ ~twRelease)
    /\ fpc = "stop442" => nb = Len(want)

\* the transfer in progress calls togglewrite for cmd with release, then
\* toggleread n times, then stop
Fetching(cmd, n) ==
    /\ InTogglewrite => (nb = 0 /\ twData = cmd /\ twRelease)
    /\ InToggleread => nb \in 1..n
    /\ fpc = "stop442" => nb = n + 1

\* a prefix of the bytes `want`, followed by a prefix of the bits of the
\* next one: what the chip has received while `want` is being sent
Receiving(s, want) ==
    /\ Len(s.bytes) <= Len(want)
    /\ \A k \in 1..Len(s.bytes) : s.bytes[k] = want[k]
    /\ Len(s.bytes) = Len(want) => s.bits = << >>
    /\ Len(s.bytes) < Len(want) =>
          \A k \in 1..Len(s.bits) :
              s.bits[k] = bitRead(want[Len(s.bytes) + 1], k - 1)

\* transfers completed by the operation in progress when it is at pc
Completed(at) ==
    CASE at \in {"w271", "r250", "h302", "rr376", "wr401"} -> 0
      [] at \in {"w274", "r252", "r263", "g239", "h303", "rr382", "wr407"} -> 1
      [] at \in {"w279", "w295"} -> 2
      [] at = "w297" -> 3

\* the sessions of write(tm) / set(t) as the chip's wires carry them
C3_OnWires ==
    LET busy == op \in {"write", "set"}
        over == op = "idle" /\ lastOp \in {"write", "set"}
        w == WriteSessions(tm)
    IN  /\ (busy \/ over) =>
              /\ Len(log) <= 3
              /\ \A k \in 1..Len(log) : log[k] = w[k]
        /\ (busy /\ Len(log) < 3) => Receiving(sess, w[Len(log) + 1])
        /\ (busy /\ Len(log) = 3) => sess = IdleSess
        /\ (busy /\ (fn = "clock_burst_write" \/ pc = "w297")) => Len(log) >= 2
        /\ (busy /\ pc = "w297") => log = w
        /\ over => log = w

\* C3 (Spec): write(tm) and set(t) send, in this order, the session
\* 0x8E 0x00, the session 0x90 0x00 and then the one burst write 0xBE; no
\* bit of the burst write is on the wire before both register writes have
\* ended, whatever the time record holds.  The calls are made in this
\* order whenever write or set runs; the sessions are on the chip's wires
\* when the pins are bound.
C3_WriteOrder ==
    LET busy == op \in {"write", "set"}
        w == WriteSessions(tm)
    IN  /\ (busy /\ fn # "none") =>
              /\ fn = (IF pc = "w295" THEN "clock_burst_write"
                       ELSE "write_reg")
              /\ Sending(w[Completed(pc) + 1])
        /\ Bound => C3_OnWires
\* set() is in the middle of the burst write of a record outside the
\* chip's ranges, both register writes done
C3_Witness ==
    /\ op = "set" /\ Bound
    /\ tm = Tm(255, 255, 255, 255, 255, 255, 29)
    /\ fn = "clock_burst_write"
    /\ Len(sess.bytes) = 5 /\ Len(sess.bits) = 3
    /\ log = << << 142, 0 >>, << 144, 0 >> >>

InStart == fpc \in {"start422", "start423", "start425", "start426",
                    "start428", "start430"}
InExchange == fpc \in {"tw489", "tw493", "tw496", "tr462", "tr466", "tr470"}

ChipEnable == Level(pinDir, pinOut, Wiring.rst)

\* C4 (Spec): session framing.  Every transfer invokes start() once before
\* its first byte exchange and stop() once after its last; start() is never
\* invoked while a session is open, stop() only with a session open, and
\* every byte exchange on bound pins happens with chip enable high.
C4_SessionFraming ==
    /\ fn = "none" => ChipEnable = LOW /\ sess = IdleSess /\ starts = stops
    /\ (fn # "none" /\ fpc = "start422") =>
          starts = 0 /\ stops = 0 /\ ChipEnable = LOW
    /\ (fn # "none" /\ InStart /\ fpc # "start422") =>
          starts = 1 /\ stops = 0 /\ ChipEnable = LOW
    /\ (fn # "none" /\ (InExchange \/ fpc = "stop442")) =>
          /\ starts = 1 /\ stops = 0
          /\ Bound => ChipEnable = HIGH
    /\ (op # "idle" /\ fn = "none") =>
          /\ Bound => Len(log) = Completed(pc)
          /\ Completed(pc) > 0 => starts = 1 /\ stops = 1
    /\ (op # "idle" /\ fn # "none" /\ Bound) =>
          Len(log) = Completed(pc)

\* a single-register read is sampling the fourth bit of its byte
C4_Witness ==
    /\ Bound /\ fn = "read_reg" /\ fpc = "tr470" /\ i = 3
    /\ ChipEnable = HIGH /\ starts = 1 /\ stops = 0

\* bits of the image that no member written by write(tm) occupies: the
\* reserved members, Clock Halt and the whole write-protect byte
UnusedBits == << {7}, {7}, {6}, {6, 7}, {5, 6, 7}, {3, 4, 5, 6, 7}, {}, 0..7 >>

\* C5 (CodecSpec): the image write(tm) hands to the burst write has the
\* hour mode bit (bit 7 of byte 2) 0, and every reserved bit, Clock Halt
\* and the write-protect byte 0, for a record in the valid ranges.
C5_ImageLayout ==
    (lastOp = "write" /\ InRange(tm)) =>
        /\ bitRead(rtc[3], 7) = 0
        /\ bitRead(rtc[1], 7) = 0
        /\ rtc[8] = 0
        /\ \A k \in 1..8 : \A b \in UnusedBits[k] : bitRead(rtc[k], b) = 0
        /\ log[3] = << DS1302_CLOCK_BURST_WRITE >> \o rtc

\* the latest valid record has been encoded: 23:59:59, day 7, 31.12.2099
C5_Witness ==
    /\ lastOp = "write" /\ tm = MaxTm
    /\ rtc = << 89, 89, 35, 49, 18, 7, 153, 0 >>

\* C6 as claimed (CodecSpec): write() of year 53 gives year BCD tens 5,
\* units 3, and read() of tens 5, units 3 gives year 83.
C6_YearOffset_claimed ==
    /\ (lastOp = "write" /\ tm.Year = 53) =>
          (rtc[7] \div 16 = 5 /\ rtc[7] % 16 = 3)
    /\ (lastOp = "read" /\ rtc[7] \div 16 = 5 /\ rtc[7] % 16 = 3) =>
          tm.Year = 83

\* C6 amended (CodecSpec): write() of year 53 (2023) gives year BCD tens 2,
\* units 3, and read() of tens 5, units 3 gives year 83.
C6_YearOffset ==
    /\ (lastOp = "write" /\ tm.Year = 53) =>
          (rtc[7] \div 16 = 2 /\ rtc[7] % 16 = 3)
    /\ (lastOp = "read" /\ rtc[7] \div 16 = 5 /\ rtc[7] % 16 = 3) =>
          tm.Year = 83

\* year 53 has been written, and the chip holds 0x23 in its year register
C6_Witness ==
    /\ lastOp = "write" /\ tm.Year = 53
    /\ rtc[7] = 35 /\ chipRegs[7] = 35

\* the tens and units of value v are stored whole in the members tens and
\* units of image s, and decode to v
StoredWhole(s, tens, units, v) ==
    /\ Member(s, tens) = bin2bcd_h(v)
    /\ Member(s, units) = bin2bcd_l(v)
    /\ bcd2bin(Member(s, tens), Member(s, units)) = v

\* C7 (CodecSpec): BCD round trip within the member widths.  For each
\* member on its own, a value in the member's valid range is stored by
\* write(tm) without loss of bits and bcd2bin of what is stored is the value.
C7_BcdRoundTrip ==
    lastOp = "write" =>
        /\ tm.Second \in 0..59 => StoredWhole(rtc, "Seconds10", "Seconds", tm.Second)
        /\ tm.Minute \in 0..59 => StoredWhole(rtc, "Minutes10", "Minutes", tm.Minute)
        /\ tm.Hour \in 0..23 => StoredWhole(rtc, "h24_Hour10", "h24_Hour", tm.Hour)
        /\ tm.Day \in 1..31 => StoredWhole(rtc, "Date10", "Date", tm.Day)
        /\ tm.Month \in 1..12 => StoredWhole(rtc, "Month10", "Month", tm.Month)
        /\ (tm.Year - YearOffset) \in 0..99 =>
              StoredWhole(rtc, "Year10", "Year", tm.Year - YearOffset)

\* 59 seconds round-trip in a record whose month is outside its range
C7_Witness ==
    /\ lastOp = "write"
    /\ tm = [MaxTm EXCEPT !.Month = 200]
    /\ rtc[1] = 89 /\ Member(rtc, "Seconds10") = 5 /\ Member(rtc, "Seconds") = 9

\* C8 (Spec): chipPresent() is false before any construction, true after a
\* construction, and once true stays true whatever is called and whatever
\* the data line carries.
C8_ChipPresent ==
    /\ ~chipPresent
    /\ [][ /\ chipPresent => chipPresent'
           /\ Construct(Wiring.io, Wiring.sclk, Wiring.rst) => chipPresent'
           /\ (~chipPresent /\ chipPresent') =>
                 Construct(Wiring.io, Wiring.sclk, Wiring.rst) ]_vars

\* a read is sampling a data line that floats high, with nothing attached
C8_Witness ==
    /\ chipPresent
    /\ env = "float_high" /\ op = "read" /\ fpc = "tr470" /\ nb = 4

\* C9 (Spec): set(), read(tm) and write(tm) return true on every call,
\* whatever the input and whatever the data line carried.
C9_AlwaysTrue ==
    (op = "idle" /\ lastOp \in {"set", "read", "write"}) => ret = << TRUE >>

\* read(tm) has returned true after sampling a line stuck high
C9_Witness ==
    /\ op = "idle" /\ lastOp = "read" /\ env = "float_high"
    /\ rtc = OnesImage /\ ret = << TRUE >>

\* C10 (Spec): halt() makes one single-register write, 0x8E then 0x00, and
\* nothing else (on bound pins the chip receives that one session); the
\* seconds register with its clock-halt bit, the other time registers and
\* the trickle register stay as they were.
C10_HaltOnlyEnable ==
    LET busy == op = "halt"
        over == op = "idle" /\ lastOp = "halt"
        w == << bitClear(DS1302_ENABLE, DS1302_READBIT), 0 >>
    IN  /\ (busy \/ over) =>
              \A k \in (1..9) \ {ControlReg + 1} : chipRegs[k] = regsAtCall[k]
        /\ (busy /\ fn # "none") => (fn = "write_reg" /\ Sending(w))
        /\ (busy /\ Bound /\ Len(log) = 0) => Receiving(sess, w)
        /\ (busy /\ Bound /\ Len(log) > 0) =>
              (log = << w >> /\ sess = IdleSess)
        /\ (busy /\ Bound /\ pc = "h303") => log = << w >>
        /\ (over /\ Bound) => log = << w >>

\* halt() has returned on a chip that was write-protected and halted: the
\* protection is gone and the clock-halt bit is still set
C10_Witness ==
    /\ op = "idle" /\ lastOp = "halt" /\ env = "chip"
    /\ bitRead(regsAtCall[ControlReg + 1], 7) = 1
    /\ chipRegs[ControlReg + 1] = 0
    /\ bitRead(chipRegs[1], 7) = 1

-----------------------------------------------------------------------------
(* The wires at the calls of togglewrite and toggleread *)

ClockLine == Level(pinDir, pinOut, Wiring.sclk)

\* the call made after n bytes of the transfer in progress
CallNo(n) == NextCall(fn, n)

\* toggleread has been called and has not yet run line 462
TogglereadEntry == fn # "none" /\ fpc = "tr462" /\ i = 0

\* C11 (Spec): at every invocation of toggleread in any transaction,
\* including each of the 8 consecutive invocations of a burst read, the
\* clock line is high on entry.
C11_ClockHighOnEntry ==
    (TogglereadEntry /\ Bound) => ClockLine = HIGH

\* togglewrite has returned to the transfer, which has not yet run the
\* first line of its next call
TogglewriteReturned ==
    /\ fn # "none" /\ nb >= 1
    /\ CallNo(nb - 1).kind = "togglewrite"
    /\ \/ fpc \in {"tw489", "tr462"} /\ i = 0
       \/ fpc = "stop442"

\* C12 (Spec): when togglewrite(data, release) returns on bound pins, for
\* every data byte:
\* with release set the clock line is high and the data line is an input;
\* with release not set the clock line is low and the data line is still an
\* output.
C12_TogglewriteExit ==
    (TogglewriteReturned /\ Bound) =>
        IF CallNo(nb - 1).release
        THEN ClockLine = HIGH /\ pinDir[io] = "INPUT"
        ELSE ClockLine = LOW /\ pinDir[io] = "OUTPUT"

\* the burst read has sent its command byte with release
C12_Witness ==
    /\ Bound /\ TogglewriteReturned /\ fn = "clock_burst_read"
    /\ CallNo(nb - 1).release /\ CallNo(nb - 1).data = DS1302_CLOCK_BURST_READ
    /\ ClockLine = HIGH /\ pinDir[io] = "INPUT"

DataLevel == Level(pinDir, pinOut, Wiring.io)

\* rising clock edges of the togglewrite in progress
RisesInCall == obs.rises - 8 * nb

\* at every position of togglewrite: the rising edges made so far, the level
\* on the data line at the edge just made, and what a chip sampling on
\* rising edges has taken in; at the return, 8 edges and the byte d
C13_OnWires ==
    /\ (InTogglewrite /\ fpc # "tw496") =>
          /\ RisesInCall = i
          /\ ClockLine = LOW
          /\ Len(sess.bytes) = nb /\ Len(sess.bits) = i
    /\ (InTogglewrite /\ fpc = "tw496") =>
          /\ RisesInCall = i + 1
          /\ ClockLine = HIGH
          /\ pinDir[io] = "OUTPUT" /\ DataLevel = bitRead(twData, i)
          /\ IF i < 7
             THEN /\ Len(sess.bytes) = nb /\ Len(sess.bits) = i + 1
                  /\ \A k \in 0..i : sess.bits[k + 1] = bitRead(twData, k)
             ELSE /\ Len(sess.bytes) = nb + 1 /\ sess.bits = << >>
                  /\ sess.bytes[nb + 1] = twData
    /\ TogglewriteReturned =>
          /\ obs.rises = 8 * nb
          /\ Len(sess.bytes) = nb /\ sess.bits = << >>
          /\ sess.bytes[nb] = CallNo(nb - 1).data

\* the same, for every togglewrite on bound pins
C13_Edges == Bound => C13_OnWires

\* a level the host drives on the data line is replaced by another only
\* while the clock line is low
C13_DriveStep ==
    (/\ pinDir[Wiring.io] = "OUTPUT" /\ pinDir'[Wiring.io] = "OUTPUT"
     /\ pinOut'[Wiring.io] # pinOut[Wiring.io]) =>
        (ClockLine = LOW /\ ClockLine' = LOW)

\* the level the host puts on the data line changes only while the clock
\* line is low
C13_LevelStep ==
    (DataLevel' # DataLevel) => (ClockLine = LOW /\ ClockLine' = LOW)

\* the step of line 505: after the eighth rising edge of a byte sent with
\* release, the host stops driving the data line while the clock line stays
\* high
C13_ReleaseStep ==
    /\ fn # "none" /\ fpc = "tw496" /\ twRelease /\ i = 7
    /\ RisesInCall = 8
    /\ pinDir[Wiring.io] = "OUTPUT" /\ pinDir'[Wiring.io] = "INPUT"
    /\ ClockLine = HIGH /\ ClockLine' = HIGH

\* C13 as claimed (Spec): for every byte d and either release value,
\* togglewrite(d, release) on bound pins makes exactly 8 rising edges on the
\* clock line, the level driven on the data line at the i-th rising edge
\* (i = 0..7) is bit i of d, and the host changes the data line level only
\* while the clock line is low, so a chip sampling on rising edges receives
\* exactly d.
C13_TogglewriteBits_claimed == [] C13_Edges /\ [][C13_LevelStep]_vars

\* C13 amended (Spec): for every byte d and either release value,
\* togglewrite(d, release) on bound pins makes exactly 8 rising edges on the
\* clock line, the level driven on the data line at the i-th rising edge
\* (i = 0..7) is bit i of d, and the host replaces the level it drives on the
\* data line only while the clock line is low, so a chip sampling on rising
\* edges receives exactly d; the data line level changes while the clock
\* line is not low in one step only, the release of a byte sent with release
\* set, which follows the eighth rising edge with the clock line still high.
C13_TogglewriteBits ==
    /\ [] C13_Edges
    /\ [][C13_DriveStep /\ (C13_LevelStep \/ C13_ReleaseStep)]_vars

\* the burst read has sent 0xBF with release: eight rising edges made, the
\* chip has taken the byte in, and the host has let go of the data line, on
\* which it drove bit 7 = 1, while the clock line is high
C13_Witness ==
    /\ Bound /\ TogglewriteReturned /\ fn = "clock_burst_read" /\ nb = 1
    /\ obs.rises = 8 /\ sess.bytes = << DS1302_CLOCK_BURST_READ >>
    /\ bitRead(DS1302_CLOCK_BURST_READ, 7) = 1
    /\ DataLevel = LOW /\ ClockLine = HIGH /\ pinDir[Wiring.io] = "INPUT"

-----------------------------------------------------------------------------
(* Read transactions *)

\* toggleread has returned to the transfer, which has not yet run the
\* first line of its next call
TogglereadReturned ==
    /\ fn # "none" /\ nb >= 2
    /\ CallNo(nb - 1).kind = "toggleread"
    /\ \/ fpc = "tr462" /\ i = 0
       \/ fpc = "stop442"

\* the byte the toggleread that has just returned gave its caller: the
\* byte stored by *p++ = toggleread() (line 326), or data (line 379)
ReturnedByte == IF fn = "clock_burst_read" THEN rtc[nb - 1] ELSE data

\* the first k bytes a chip holding regs shifts out after the command cmd
ChipBytes(regs, cmd, k) ==
    LET stream == ReadStream(regs, cmd)
    IN  [j \in 1..k |-> IF j <= Len(stream) THEN stream[j] ELSE 0]

\* what toggleread samples and what it returns, on any pin
C14_Samples ==
    /\ (InToggleread /\ i >= 1) =>
          /\ Len(obs.samples) = i
          /\ \A k \in 0..(i - 1) : bitRead(trData, k) = obs.samples[k + 1]
    /\ TogglereadReturned =>
          /\ Len(obs.samples) = 8
          /\ \A k \in 0..7 : bitRead(ReturnedByte, k) = obs.samples[k + 1]
          /\ Len(obs.rx) = nb - 1
          /\ obs.rx[nb - 1] = ReturnedByte

\* the clock edges between the samples and the bytes of the chip, on the
\* wires of the chip
C14_OnWires ==
    /\ (TogglewriteReturned /\ CallNo(nb - 1).release) =>
          obs.falls = 0 /\ sess.nout = 0
    /\ (InToggleread /\ fpc # "tr470") =>
          obs.falls = 0 /\ sess.nout = 8 * (nb - 1) + i
    /\ (InToggleread /\ fpc = "tr470") =>
          /\ obs.falls = 1 /\ ClockLine = LOW
          /\ sess.nout = 8 * (nb - 1) + i + 1
    /\ TogglereadReturned =>
          /\ obs.falls = 0
          /\ env = "chip" =>
                obs.rx = ChipBytes(chipRegs, sess.bytes[1], nb - 1)
    /\ (op \in {"read", "get"} /\ pc = "r252" /\ env = "chip") =>
          rtc = ChipBytes(chipRegs, DS1302_CLOCK_BURST_READ, 8)
    /\ (op = "read_reg" /\ pc = "rr382" /\ env = "chip") =>
          << data >> = ChipBytes(chipRegs, U8(address), 1)

\* C14 (Spec): in every read transaction (read(int) and burst read) on
\* bound pins exactly
\* one falling clock edge lies between the last rising edge of the command
\* byte and the first sample of the data line, and exactly one between any
\* two consecutive samples, also across the bytes of a burst read;
\* toggleread returns the byte whose bit i is the level of its i-th sample;
\* so against a chip that shifts out its next bit, least-significant first,
\* on each falling edge, the bytes returned are the chip's bytes in order.
C14_ReadEdges == C14_Samples /\ (Bound => C14_OnWires)

\* the burst read has taken its second byte from a chip holding 45 seconds
\* (halted) and 30 minutes
C14_Witness ==
    /\ Bound /\ TogglereadReturned /\ fn = "clock_burst_read" /\ nb = 3
    /\ env = "chip" /\ obs.rx = << 197, 48 >>
    /\ rtc[1] = 197 /\ rtc[2] = 48 /\ obs.falls = 0

-----------------------------------------------------------------------------
(* Single-register transfers *)

\* bits 1..7 of the byte b are those of the int a
SameUpperBits(b, a) == \A k \in 1..7 : bitRead(b, k) = bitRead(a, k)

\* read(int) / write(int, uint8_t) called directly is in progress or has
\* returned
RegOp(name) == op = name \/ (op = "idle" /\ lastOp = name)

\* the calls read(int) and write(int, uint8_t) make, on any pin
C15_Calls ==
    /\ (op = "read_reg" /\ fn # "none") =>
          /\ fn = "read_reg"
          /\ Fetching(bitSet(U8(obs.arg[1]), DS1302_READBIT), 1)
          /\ InTogglewrite =>
                /\ bitRead(twData, DS1302_READBIT) = 1
                /\ SameUpperBits(twData, obs.arg[1])
    /\ (op = "write_reg" /\ fn # "none") =>
          /\ fn = "write_reg"
          /\ Sending(<< bitClear(U8(obs.arg[1]), DS1302_READBIT),
                        U8(obs.arg[2]) >>)
          /\ (InTogglewrite /\ nb = 0) =>
                /\ bitRead(twData, DS1302_READBIT) = 0
                /\ SameUpperBits(twData, obs.arg[1])

\* what the wires of the chip carry meanwhile
C15_OnWires ==
    /\ (RegOp("read_reg") /\ Len(sess.bytes) >= 1) =>
          /\ bitRead(sess.bytes[1], DS1302_READBIT) = 1
          /\ SameUpperBits(sess.bytes[1], obs.arg[1])
    /\ (RegOp("write_reg") /\ Len(sess.bytes) >= 1) =>
          /\ bitRead(sess.bytes[1], DS1302_READBIT) = 0
          /\ SameUpperBits(sess.bytes[1], obs.arg[1])
    /\ (RegOp("write_reg") /\ Len(sess.bytes) >= 2) =>
          sess.bytes[2] = U8(obs.arg[2])
    /\ (fn = "read_reg" /\ TogglewriteReturned) =>
          nb = 1 /\ pinDir[io] = "INPUT" /\ ClockLine = HIGH
    /\ (fn = "read_reg" /\ fpc = "stop442") =>
          /\ sess.bytes = << bitSet(U8(obs.arg[1]), DS1302_READBIT) >>
          /\ obs.rx = << data >> /\ obs.rises = 8 + 7 /\ sess.nout = 8
    /\ (fn = "write_reg" /\ (InExchange \/ fpc = "stop442")) =>
          /\ pinDir[io] = "OUTPUT" /\ obs.samples = << >>
          /\ ~InToggleread
    /\ (fn = "write_reg" /\ fpc = "stop442") =>
          /\ Len(sess.bytes) = 2 /\ obs.rises = 8 + 8
          /\ sess.bytes = << U8(address), data >>
    /\ (RegOp("read_reg") /\ fn = "none") =>
          /\ log = << << bitSet(U8(obs.arg[1]), DS1302_READBIT) >> >>
          /\ obs.rx = << data >> /\ Len(obs.samples) = 8
          /\ obs.rises = 8 + 7
    /\ (RegOp("write_reg") /\ fn = "none") =>
          /\ log = << << bitClear(U8(obs.arg[1]), DS1302_READBIT),
                         U8(obs.arg[2]) >> >>
          /\ obs.rx = << >> /\ obs.samples = << >>
          /\ obs.rises = 8 + 8

\* C15 (Spec): for every address argument, the command byte sent by
\* read(int) has bit 0 set and the one sent by write(int, uint8_t) has bit 0
\* cleared, with bits 1..7 those of the argument; the read sends the command
\* with line release and then reads exactly one byte; the write sends the
\* command and then exactly one data byte, neither with line release.  The calls
\* are checked on any pin, the bytes on the wires when the pins are bound.
C15_SingleRegister == C15_Calls /\ (Bound => C15_OnWires)

\* write(0x8F, 0x80) has returned: the chip got 0x8E, 0x80
C15_Witness ==
    /\ Bound /\ op = "idle" /\ lastOp = "write_reg"
    /\ obs.arg = << DS1302_ENABLE + 1, 128 >>
    /\ log = << << DS1302_ENABLE, 128 >> >>

-----------------------------------------------------------------------------
(* Burst transfers *)

\* s is the beginning of t
IsPrefix(s, t) == Len(s) <= Len(t) /\ \A k \in 1..Len(s) : s[k] = t[k]

\* the calls the burst transfers make and where the bytes read are
\* stored, on any pin
C16_Calls ==
    /\ fn = "clock_burst_read" =>
          /\ Fetching(DS1302_CLOCK_BURST_READ, 8)
          /\ (InToggleread \/ fpc = "stop442") =>
                /\ Len(obs.rx) = (IF InToggleread THEN nb - 1 ELSE 8)
                /\ \A k \in 1..Len(obs.rx) : rtc[k] = obs.rx[k]
    /\ fn = "clock_burst_write" =>
          Sending(<< DS1302_CLOCK_BURST_WRITE >> \o rtc)
    /\ (fn \in {"clock_burst_read", "clock_burst_write"}
          /\ (InExchange \/ fpc = "stop442")) =>
          starts = 1 /\ stops = 0

\* what the wires of the chip carry meanwhile
C16_OnWires ==
    LET rd == fn = "clock_burst_read"
        wr == fn = "clock_burst_write"
        sent == << DS1302_CLOCK_BURST_WRITE >> \o rtc
    IN  /\ ((rd \/ wr) /\ (InExchange \/ fpc = "stop442")) =>
              /\ ChipEnable = HIGH
              /\ starts = 1 /\ stops = 0
              /\ Len(log) = Completed(pc)
        /\ (rd /\ InTogglewrite) => nb = 0 /\ twRelease
        /\ (rd /\ TogglewriteReturned) =>
              nb = 1 /\ pinDir[io] = "INPUT" /\ ClockLine = HIGH
        /\ (rd /\ (InToggleread \/ fpc = "stop442")) =>
              /\ sess.bytes = << DS1302_CLOCK_BURST_READ >>
              /\ Len(obs.rx) = (IF InToggleread THEN nb - 1 ELSE 8)
              /\ \A k \in 1..Len(obs.rx) : rtc[k] = obs.rx[k]
        /\ (rd /\ fpc = "stop442") =>
              /\ nb = 9 /\ obs.rx = rtc
              /\ sess.nout = 8 * 8 /\ obs.rises = 9 * 8 - 1
        /\ (wr /\ (InExchange \/ fpc = "stop442")) =>
              /\ pinDir[io] = "OUTPUT" /\ ~InToggleread
              /\ obs.samples = << >> /\ obs.rx = << >>
              /\ Len(sess.bytes) =
                    (IF fpc = "tw496" /\ i = 7 THEN nb + 1 ELSE nb)
              /\ IsPrefix(sess.bytes, sent)
        /\ (wr /\ fpc = "stop442") =>
              nb = 9 /\ sess.bytes = sent /\ obs.rises = 9 * 8
        /\ (op \in {"read", "get"} /\ pc = "r252") =>
              log = << << DS1302_CLOCK_BURST_READ >> >>
        /\ (op \in {"write", "set"} /\ pc = "w297") =>
              Len(log) = 3 /\ log[3] = sent

\* C16 (Spec): within a single session, a burst read sends exactly the
\* command byte 0xBF, with line release, and then reads exactly 8 bytes,
\* storing the k-th byte read into buffer position k; a burst write sends
\* exactly 9 bytes, the command byte 0xBE and then buffer bytes 0..7 in
\* order, none with line release; chip enable stays high from the first bit
\* of the command to the last bit of the eighth data byte.  The calls are checked on any
\* pin, the session on the wires when the pins are bound.
C16_Burst == C16_Calls /\ (Bound => C16_OnWires)

\* the burst write of 23:30:45 on Tuesday 15 June 2023 has sent its last
\* byte and has not yet lowered chip enable
C16_Witness ==
    /\ Bound /\ fn = "clock_burst_write" /\ fpc = "stop442" /\ ChipEnable = HIGH
    /\ tm = ConcreteTm
    /\ sess.bytes = << 190, 69, 48, 35, 21, 6, 3, 35, 0 >>

-----------------------------------------------------------------------------
(* Who drives the data line *)

\* at every position: the host's writes and samples of the data pin, and
\* the chip's driving of it; chip enable and the clock are those of the
\* chip when the pins are bound
C17_Lines ==
    /\ (fn # "none" /\ fpc = "tw489") => pinDir[io] = "OUTPUT"
    /\ (fn # "none" /\ fpc = "tr470") =>
          /\ pinDir[io] = "INPUT"
          /\ Bound => ChipEnable = HIGH
    /\ InToggleread => pinDir[io] = "INPUT"
    /\ ChipDrives(sess) => pinDir[Wiring.io] = "INPUT"
    /\ (InTogglewrite /\ fpc = "tw496" /\ twRelease /\ i = 7) =>
          /\ pinDir[io] = "OUTPUT"
          /\ Bound => (ClockLine = HIGH /\ RisesInCall = 8 /\ obs.falls = 0)

\* the steps that turn the data line around
C17_TurnStep ==
    /\ (pinDir[Wiring.io] = "OUTPUT" /\ pinDir'[Wiring.io] = "INPUT") =>
          /\ fpc = "tw496" /\ twRelease /\ i = 7
          /\ fn \in {"clock_burst_read", "read_reg"}
          /\ obs.rises = 8 /\ obs'.rises = 8
          /\ obs.falls = 0 /\ obs'.falls = 0
          /\ ClockLine = HIGH /\ ClockLine' = HIGH
    /\ (pinDir[Wiring.io] = "INPUT" /\ pinDir'[Wiring.io] = "OUTPUT") =>
          /\ fn # "none" /\ fpc = "start428"
          /\ ChipEnable = LOW /\ ChipEnable' = LOW

\* C17 (Spec): bus-conflict freedom over any sequence of public operations.
\* In a read transaction the data line is switched to input after the last
\* rising clock edge of the command byte and before the next falling clock
\* edge; every sample of the data line is taken while its direction is input
\* and chip enable is high; every level the host drives on the data line is
\* driven while its direction is output; and the direction returns to output
\* only inside start(), while chip enable is low.
C17_NoBusConflict == [] C17_Lines /\ [][C17_TurnStep]_vars

\* the host samples a 1 the chip drives on the released data line
C17_Witness ==
    /\ Bound /\ fn = "clock_burst_read" /\ fpc = "tr470" /\ env = "chip"
    /\ pinDir[io] = "INPUT" /\ ChipEnable = HIGH
    /\ ChipDrives(sess) /\ DataLine = 1

-----------------------------------------------------------------------------
(* Termination *)

\* GPIO calls of each operation, from its call to its return
OpsOf(name) ==
    CASE name \in {"write", "set"} ->
            TransferOps(2) + TransferOps(2) + TransferOps(9)
      [] name \in {"read", "get"} -> TransferOps(9)
      [] name \in {"halt", "read_reg", "write_reg"} -> TransferOps(2)

\* how far the body of the operation in progress has come: its statements
\* in order, a transfer in progress counting as one more
Stage ==
    LET at == CASE pc \in {"w271", "r250", "h302", "rr376", "wr401"} -> 0
                [] pc \in {"w274", "r252", "h303", "rr382", "wr407"} -> 2
                [] pc = "r263" -> 3
                [] pc \in {"w279", "g239"} -> 4
                [] pc = "w295" -> 5
                [] pc = "w297" -> 7
                [] pc = "idle" -> 0
    IN  at + (IF fn # "none" THEN 1 ELSE 0)

\* while an operation runs it has a next step and has made no more GPIO
\* calls than its total; when it has returned it has made exactly its
\* total, whatever was on the data line, and chip enable is low
C18_Counts ==
    /\ op # "idle" =>
          /\ (pc = "w279" /\ fn = "none") \/ ENABLED Run
          /\ obs.pinOps <= OpsOf(op)
          /\ fn = "none" => (ChipEnable = LOW /\ sess = IdleSess)
    /\ op = "idle" =>
          /\ ChipEnable = LOW /\ sess = IdleSess /\ fn = "none"
          /\ lastOp # "none" => obs.pinOps = OpsOf(lastOp)

\* every step of an operation in progress returns from it, or makes one
\* more GPIO call, or moves on in its body: no step waits or goes back
C18_Advance ==
    op # "idle" =>
        \/ op' = "idle"
        \/ /\ op' = op
           /\ obs'.pinOps \in {obs.pinOps, obs.pinOps + 1}
           /\ Stage' >= Stage
           /\ obs'.pinOps + Stage' > obs.pinOps + Stage

\* C18 (Spec): every public operation (get, set, read, write, halt)
\* terminates after a fixed, finite number of pin operations that does not
\* depend on the levels read from the data line (no wait on the chip, no
\* retry), and when it returns chip enable is low, so between any two public
\* operations no session is open.
C18_Terminates == [] C18_Counts /\ [][C18_Advance]_vars

\* read(tm) has returned after its 223 GPIO calls with the data line stuck
\* high
C18_Witness ==
    /\ op = "idle" /\ lastOp = "read" /\ env = "float_high"
    /\ obs.pinOps = 223 /\ ChipEnable = LOW /\ rtc = OnesImage

-----------------------------------------------------------------------------
(* The opening of a session *)

AllOutputs == \A p \in WiredPins : pinDir[p] = "OUTPUT"

\* start() on bound pins is about to raise chip enable, or has just
\* raised it
C19_Lines ==
    /\ (fn # "none" /\ fpc = "start430" /\ Bound) =>
          ChipEnable = LOW /\ ClockLine = LOW /\ AllOutputs
    /\ (fn # "none" /\ fpc = "tw489" /\ nb = 0 /\ i = 0 /\ Bound) =>
          ChipEnable = HIGH /\ ClockLine = LOW /\ AllOutputs

\* a rising edge of chip enable
C19_RiseStep ==
    (ChipEnable = LOW /\ ChipEnable' = HIGH) =>
        /\ fn # "none" /\ fpc = "start430"
        /\ ClockLine = LOW /\ ClockLine' = LOW
        /\ AllOutputs /\ AllOutputs'

\* C19 (Spec): over any sequence of public operations, read transactions and
\* write transactions in any order, at every rising edge of chip enable the
\* clock line is low and the chip-enable, clock and data pins are all
\* outputs; in particular a session that follows a read transaction does
\* not open with the clock high or the data line still an input.
C19_SessionOpening == [] C19_Lines /\ [][C19_RiseStep]_vars

\* write(tm) has opened its first session after a read transaction, which
\* left the data line an input
C19_Witness ==
    /\ Bound /\ op = "write" /\ pc = "w271" /\ fpc = "tw489" /\ nb = 0 /\ i = 0
    /\ obs.prev = "read"
    /\ ChipEnable = HIGH /\ ClockLine = LOW /\ AllOutputs

====
